---- MODULE Spec2Model ----
(***************************************************************************)
(* GFP-PCKMGR: the self-update path of the Telegram bot (gfp_pckmgr.py)    *)
(* and of the polling updater (check_updates.py).                          *)
(*                                                                         *)
(* Two operating-system processes share the git working copy under         *)
(* /opt/gfp-pckmgr and the file /opt/gfp-pckmgr/.update_available:         *)
(*   - the bot process: the handlers check_updates (/update),              *)
(*     version_command (/version), handle_update_button (the               *)
(*     update_confirm / update_cancel buttons) and the repeating job       *)
(*     check_pending_updates; its memory is context.bot_data;              *)
(*   - the updater process: the loop check_and_notify; its memory is the   *)
(*     local variable last_commit.                                         *)
(* Telegram keeps the messages with their inline buttons, whichever        *)
(* process sent them; every button press is delivered to the bot process.  *)
(*                                                                         *)
(* Specifications:                                                         *)
(*   Spec, SpecUpdater    the update records: detection, publication,      *)
(*                        approval, with the handler seen as one reset;    *)
(*   SpecCalls            update_confirm of the bot call by call (backup,  *)
(*                        reset, pip3, systemctl), nobody editing;         *)
(*   SpecApply            the same with an operator editing the managed    *)
(*                        files and a clock: the backup directory;         *)
(*   SpecApplyUpdater     update_confirm of check_updates.py: stash, pull; *)
(*   SpecResolve          the branch block of /update, from every checkout *)
(*                        and set of remote-tracking references;           *)
(*   SpecPoll, SpecNotify the process of check_updates.py through setup,   *)
(*                        passes and sleeps; then with every round of      *)
(*                        notifications recorded;                          *)
(*   SpecCommands,        one run of the bot with the users who write to   *)
(*   SpecSession          it: the shell and directory handlers, then the   *)
(*                        update handlers as well;                         *)
(*   SpecRestart          the stop / start block call by call;             *)
(*   SpecPress            the update buttons in a bot that is restarted.   *)
(***************************************************************************)
EXTENDS Integers, Sequences, FiniteSets, TLC

\* Commits are numbered in the order they are pushed: 0 .. MaxCommit.
MaxCommit == 2

Commits == 0 .. MaxCommit

\* "No such reference" / Python None for a commit-valued slot.
NoCommit == -1

\* The branch of the working copy (repo.active_branch.name).
ActiveBranch == "main"

\* An update record: the dict stored under bot_data['pending_update'] and the
\* dict literal kept in .update_available.
Tx(old, new, br) == [old_commit |-> old, new_commit |-> new, branch |-> br]

\* The key 'pending_update' is absent / the file does not exist.
NoTx == Tx(NoCommit, NoCommit, "none")

\* The messages that carry an "Update Now" button, by the code that sent them:
\* "bot" for check_updates and check_pending_updates, which store a pending
\* update when they send one, "version" for version_command, "poll" for
\* check_and_notify.
Sources == {"bot", "version", "poll"}

\* Only the /version reply has no "Cancel Update" button.
CancelSources == Sources \ {"version"}

VARIABLES
    remoteTip,      \* tip of the branch on the remote server
    originRef,      \* refs/remotes/origin/<branch> in the working copy, or NoCommit
    head,           \* repo.head.commit of the working copy
    updateFile,     \* content of .update_available, NoTx when the file is absent
    pending_update, \* bot_data['pending_update'], NoTx when the key is absent
    buttons,        \* sources whose message still shows its buttons
    cpuPc,          \* position of the job check_pending_updates
    last_commit,    \* check_and_notify's last_commit, NoCommit for None
    cancelled,      \* history: update_cancel was pressed for the stored pending_update
    applied,        \* history: the stored pending_update was already reset to
    lastRun,        \* history: what the last step was and what it did
    files,          \* the managed files of the working copy, as the operator left them
    stash,          \* number of entries of git stash
    backups,        \* the files under /opt/gfp-pckmgr/backup
    clock,          \* int(time.time())
    steps,          \* history: the calls of the update_confirm run just ended, if recorded
    active_branch,  \* repo.active_branch.name, <<>> when HEAD is detached
    references,     \* the names in repo.references that start with origin/
    remote_head,    \* the branch the remote advertises as its HEAD, <<>> if none
    branch,         \* what the branch block of check_updates came to
    pollPc,         \* where the process of check_updates.py stands
    notified,       \* history: the commits a round of notifications went out for
    request,        \* history: the Update the bot handled last and what became of it
    command_mode_users, \* the set command_mode_users of gfp_pckmgr.py
    user_data,      \* context.user_data[...]['current_dir'] of every user, '/' when absent
    restartPc,      \* where handle_update_button stands in its stop / start block
    running         \* the managed services systemd has running

repoVars == <<remoteTip, originRef, head>>
botVars == <<pending_update, cpuPc, cancelled, applied>>
copyVars == <<files, stash, backups, clock>>
branchVars == <<active_branch, references, remote_head, branch>>
sessionVars == <<request, command_mode_users, user_data>>
serviceVars == <<restartPc, running>>
processVars == <<pollPc, notified, sessionVars, serviceVars>>

vars == <<remoteTip, originRef, head, updateFile, pending_update, buttons,
          cpuPc, last_commit, cancelled, applied, lastRun, copyVars, steps,
          branchVars, processVars>>

\* A step that touches neither the files of the working copy, the stash, the
\* backup directory nor the clock, that resolves no branch, that is no run
\* of a button handler, and that is followed neither through the polling
\* loop, the chat sessions nor the services.
DetailUnchanged ==
    /\ UNCHANGED copyVars
    /\ UNCHANGED branchVars
    /\ UNCHANGED processVars
    /\ steps' = <<>>

\* The record of one run of a button handler or of one pass of the polling
\* loop: the handler, the callback data, how it ended, whether it ran
\* git reset --hard / pull successfully, whether it issued any systemctl
\* command (svc is the sequence it issued), and whether check_and_notify
\* announced a commit.
Run(h, d, res, rst, svc, ann) ==
    [handler |-> h, data |-> d, result |-> res, reset |-> rst,
     systemctl |-> (svc # <<>>), announced |-> ann]

\* The step just taken was none of those.
NoRun == Run("", "", "", FALSE, <<>>, FALSE)

Quiet(h, res) == Run(h, "", res, FALSE, <<>>, FALSE)

(***************************************************************************)
(* Python values that the handlers compare.                                *)
(***************************************************************************)
\* repo.head.commit: a git.Commit object.
CommitObj(c) == [type |-> "Commit", sha |-> c]

\* commit.hexsha: a str.
HexSha(c) == [type |-> "str", sha |-> c]

\* a != b.  git.objects.base.Object.__ne__ answers True for any operand
\* without a binsha attribute, so a Commit never equals a str.
PyNe(a, b) ==
    IF a.type = b.type THEN a.sha # b.sha ELSE TRUE

(***************************************************************************)
(* Environment.                                                            *)
(***************************************************************************)
\* Somebody pushes a new commit to the remote branch.
RemotePush ==
    /\ remoteTip < MaxCommit
    /\ remoteTip' = remoteTip + 1
    /\ lastRun' = NoRun
    /\ DetailUnchanged
    /\ UNCHANGED <<originRef, head, updateFile, buttons, last_commit>>
    /\ UNCHANGED botVars

\* detectUpdate then publish, by a detecting process that shares the file:
\* fetch, compare, and persist the transaction unless one is already there.
Publish ==
    /\ updateFile = NoTx
    /\ remoteTip # head
    /\ originRef' = remoteTip
    /\ updateFile' = Tx(head, remoteTip, ActiveBranch)
    /\ lastRun' = NoRun
    /\ DetailUnchanged
    /\ UNCHANGED <<remoteTip, head, buttons, last_commit>>
    /\ UNCHANGED botVars

(***************************************************************************)
(* The bot process (gfp_pckmgr.py).                                        *)
(***************************************************************************)
\* main(): a fresh Application; bot_data is empty and no job is running.
\* The messages already sent stay in the chats with their buttons.
main ==
    /\ pending_update' = NoTx
    /\ cpuPc' = "idle"
    /\ cancelled' = FALSE
    /\ applied' = FALSE
    /\ lastRun' = NoRun
    /\ DetailUnchanged
    /\ UNCHANGED <<updateFile, buttons, last_commit>>
    /\ UNCHANGED repoVars

\* /update.  The comparison is between the Commit object repo.head.commit and
\* the str remote_commit.hexsha.  Frame says what the handler leaves alone
\* besides the repository and bot_data.
check_updates_as(Frame) ==
    \E fetchOk \in BOOLEAN :
        IF ~fetchOk
        THEN /\ lastRun' = NoRun
             /\ Frame
             /\ UNCHANGED <<updateFile, buttons, last_commit>>
             /\ UNCHANGED repoVars
             /\ UNCHANGED botVars
        ELSE LET current_commit == CommitObj(head)
                 remote_commit == remoteTip
             IN  /\ originRef' = remoteTip
                 /\ IF PyNe(current_commit, HexSha(remote_commit))
                    THEN /\ pending_update' =
                                Tx(current_commit.sha, remote_commit, ActiveBranch)
                         /\ cancelled' = FALSE
                         /\ applied' = FALSE
                         /\ buttons' = buttons \cup {"bot"}
                         /\ lastRun' = NoRun
                         /\ Frame
                    ELSE /\ lastRun' = NoRun
                         /\ Frame
                         /\ UNCHANGED <<pending_update, cancelled, applied, buttons>>
                 /\ UNCHANGED <<remoteTip, head, updateFile, cpuPc,
                                last_commit>>

\* /update in the fully automatic flow: detection resets the working copy at
\* once.  The handler below does not; this is the variant it is told from.
check_updates_autoapply ==
    \E fetchOk \in BOOLEAN :
        IF ~fetchOk
        THEN /\ lastRun' = NoRun
             /\ DetailUnchanged
             /\ UNCHANGED <<updateFile, buttons, last_commit>>
             /\ UNCHANGED repoVars
             /\ UNCHANGED botVars
        ELSE /\ originRef' = remoteTip
             /\ head' = remoteTip
             /\ lastRun' = NoRun
             /\ DetailUnchanged
             /\ UNCHANGED <<remoteTip, updateFile, buttons, last_commit>>
             /\ UNCHANGED botVars

check_updates == check_updates_as(DetailUnchanged)

\* /version.  Compares hexsha with hexsha; stores nothing in bot_data.
version_command_as(Frame) ==
    \E fetchOk \in BOOLEAN :
        IF ~fetchOk
        THEN /\ lastRun' = NoRun
             /\ Frame
             /\ UNCHANGED <<updateFile, buttons, last_commit>>
             /\ UNCHANGED repoVars
             /\ UNCHANGED botVars
        ELSE LET remote_commit == remoteTip
             IN  /\ originRef' = remoteTip
                 /\ IF PyNe(HexSha(head), HexSha(remote_commit))
                    THEN /\ buttons' = buttons \cup {"version"}
                         /\ lastRun' = NoRun
                         /\ Frame
                    ELSE /\ UNCHANGED buttons
                         /\ lastRun' = NoRun
                         /\ Frame
                 /\ UNCHANGED <<remoteTip, head, updateFile, last_commit>>
                 /\ UNCHANGED botVars

version_command == version_command_as(DetailUnchanged)

(***************************************************************************)
(* update_confirm in the bot: backup, reset --hard origin/<branch>, pip,   *)
(* then systemctl stop / start.                                            *)
(***************************************************************************)
\* How one external command ended: return code 0, return code -15, another
\* non-zero return code.
CmdOutcomes == {"ok", "sigterm", "fail"}

\* What the environment does to one run of the handler: whether the backup
\* copies and the reset succeed, whether requirements.txt shows in the diff,
\* whether pip succeeds, and how the two stops and the two starts end.
Outcome(b, r, q, p, s1, s2, t1, t2) ==
    [backup |-> b, reset |-> r, req |-> q, pip |-> p,
     s1 |-> s1, s2 |-> s2, t1 |-> t1, t2 |-> t2]

\* How a pair of commands run one after the other can end: the second one
\* runs only when the first returned 0.
PairOutcomes ==
    {<<"ok", r2>> : r2 \in CmdOutcomes} \cup {<<"sigterm", "ok">>, <<"fail", "ok">>}

\* One representative per run that ends before the stop block, then every
\* run that reaches it.
ReachedOutcomes ==
    {Outcome(FALSE, TRUE, FALSE, TRUE, "ok", "ok", "ok", "ok"),
     Outcome(TRUE, FALSE, FALSE, TRUE, "ok", "ok", "ok", "ok"),
     Outcome(TRUE, TRUE, TRUE, FALSE, "ok", "ok", "ok", "ok")}
    \cup {Outcome(TRUE, TRUE, q, TRUE, s[1], s[2], t[1], t[2]) :
            q \in BOOLEAN, s \in PairOutcomes, t \in PairOutcomes}

StopCmds == <<"stop gfp-pckmgr", "stop gfp-pckmgr-updater">>
StartCmds == <<"start gfp-pckmgr-updater", "start gfp-pckmgr">>

\* try: run(c1, check=True); run(c2, check=True)
\* except CalledProcessError as e: if e.returncode == -15: log else: raise
RunPair(cmds, r1, r2) ==
    IF r1 = "ok"
    THEN [svc |-> cmds, raised |-> (r2 = "fail")]
    ELSE [svc |-> <<cmds[1]>>, raised |-> (r1 = "fail")]

\* The stop block followed, unless it raised, by the start block.
RestartServices(o) ==
    LET stop == RunPair(StopCmds, o.s1, o.s2)
        start == RunPair(StartCmds, o.t1, o.t2)
    IN  IF stop.raised
        THEN stop
        ELSE [svc |-> stop.svc \o start.svc, raised |-> start.raised]

\* A reset to the commit recorded in the stored update; the handler below
\* does not do this, it is the variant it is told from.
ResetTargetNewCommit(tx, ref) == tx.new_commit

\* The commit that reset --hard origin/<branch> resolves: the remote-tracking
\* reference, NoCommit when it does not exist.
ResetTarget(tx, ref) == ref

\* The whole update_confirm branch for the stored update tx: the new HEAD and
\* the record of the run.
Reconcile(tx, h, ref, o) ==
    LET target == ResetTarget(tx, ref)
    IN  IF tx = NoTx
        THEN [head |-> h, result |-> "no_pending", reset |-> FALSE, svc |-> <<>>]
        ELSE IF ~o.backup \/ ~o.reset \/ target = NoCommit
        THEN [head |-> h, result |-> "error", reset |-> FALSE, svc |-> <<>>]
        ELSE IF o.req /\ ~o.pip
        THEN [head |-> target, result |-> "error", reset |-> TRUE, svc |-> <<>>]
        ELSE LET r == RestartServices(o)
             IN  [head |-> target,
                  result |-> IF r.raised THEN "error" ELSE "ok",
                  reset |-> TRUE, svc |-> r.svc]

\* A press of a button of the message sent by src; every path of the handler
\* ends in query.edit_message_text, which removes the buttons of the message.
handle_update_button_as(data, src, Frame) ==
    /\ src \in buttons
    /\ buttons' = buttons \ {src}
    /\ IF data = "update_cancel"
       THEN /\ src \in CancelSources
            /\ cancelled' = (cancelled \/ pending_update # NoTx)
            /\ lastRun' = Run("handle_update_button", data, "cancelled", FALSE, <<>>, FALSE)
            /\ UNCHANGED <<pending_update, cpuPc, applied, updateFile, last_commit>>
            /\ UNCHANGED repoVars
       ELSE \E r \in {Reconcile(pending_update, head, originRef, o) :
                        o \in ReachedOutcomes} :
                  /\ head' = r.head
                  /\ applied' = (applied \/ r.reset)
                  /\ lastRun' = Run("handle_update_button", data, r.result, r.reset,
                                    r.svc, FALSE)
                  /\ UNCHANGED <<remoteTip, originRef, updateFile, pending_update,
                                 cpuPc, cancelled, last_commit>>
    /\ Frame

handle_update_button(data, src) ==
    handle_update_button_as(data, src, DetailUnchanged)

\* The repeating job, up to the point where update_info is stored in bot_data
\* (os.path.exists, read, eval, store).
check_pending_updates_read ==
    /\ cpuPc = "idle"
    /\ IF updateFile = NoTx
       THEN /\ lastRun' = NoRun
            /\ DetailUnchanged
            /\ UNCHANGED <<updateFile, buttons, last_commit>>
            /\ UNCHANGED botVars
       ELSE LET update_info == updateFile
            IN  /\ pending_update' = update_info
                /\ cancelled' = FALSE
                /\ applied' = FALSE
                /\ cpuPc' = "send"
                /\ lastRun' = NoRun
                /\ DetailUnchanged
                /\ UNCHANGED <<updateFile, buttons, last_commit>>
    /\ UNCHANGED repoVars

\* The rest of the job: the awaited send_message calls, then os.remove, whose
\* failure is only logged.
check_pending_updates_finish ==
    /\ cpuPc = "send"
    /\ buttons' = buttons \cup {"bot"}
    /\ \E removeOk \in BOOLEAN :
          updateFile' = IF removeOk THEN NoTx ELSE updateFile
    /\ cpuPc' = "idle"
    /\ lastRun' = NoRun
    /\ DetailUnchanged
    /\ UNCHANGED <<pending_update, cancelled, applied, last_commit>>
    /\ UNCHANGED repoVars

(***************************************************************************)
(* The updater process (check_updates.py).                                 *)
(***************************************************************************)
\* check_and_notify up to the loop: setup_git_repo fetches, last_commit = None.
check_and_notify_start ==
    /\ originRef' = remoteTip
    /\ last_commit' = NoCommit
    /\ lastRun' = NoRun
    /\ DetailUnchanged
    /\ UNCHANGED <<remoteTip, head, updateFile, buttons>>
    /\ UNCHANGED botVars

\* One pass of the while loop.  A failed fetch recreates the remote when its
\* URL can be read (git remote remove drops the remote-tracking references).
\* current_commit is the hexsha of the local HEAD.  Frame says what the pass
\* leaves alone besides the repository and the bot.
check_and_notify_as(Frame) ==
    /\ \E fetchOk \in BOOLEAN, urlOk \in BOOLEAN :
        IF ~fetchOk
        THEN /\ originRef' = IF urlOk THEN NoCommit ELSE originRef
             /\ lastRun' = Quiet("check_and_notify", "error")
             /\ UNCHANGED <<buttons, last_commit>>
        ELSE LET current_commit == HexSha(head)
             IN  /\ originRef' = remoteTip
                 /\ IF last_commit = NoCommit
                    THEN /\ last_commit' = current_commit.sha
                         /\ lastRun' = Quiet("check_and_notify", "first")
                         /\ UNCHANGED buttons
                    ELSE IF PyNe(current_commit, HexSha(last_commit))
                    THEN /\ buttons' = buttons \cup {"poll"}
                         /\ last_commit' = current_commit.sha
                         /\ lastRun' = Run("check_and_notify", "", "offered", FALSE,
                                           <<>>, TRUE)
                    ELSE /\ lastRun' = Quiet("check_and_notify", "up_to_date")
                         /\ UNCHANGED <<buttons, last_commit>>
    /\ UNCHANGED <<remoteTip, head, updateFile>>
    /\ UNCHANGED botVars
    /\ Frame

check_and_notify == check_and_notify_as(DetailUnchanged)

\* What the environment does to one run of the updater's button handler.
UpdaterOutcomes ==
    { o \in [stash : BOOLEAN, pull : BOOLEAN, req : BOOLEAN, pip : BOOLEAN,
             reload : BOOLEAN, restart : BOOLEAN] :
        /\ (~o.stash) => o.pull
        /\ (~o.pull) => ~o.req
        /\ (~o.req) => o.pip
        /\ (~(o.pull /\ o.pip)) => o.reload
        /\ (~o.reload) => o.restart }

\* update_confirm in check_updates.py: stash when dirty, pull, pip, then
\* systemctl daemon-reload and restart.
Pull(tip, h, isDirty, o) ==
    IF isDirty /\ ~o.stash
    THEN [head |-> h, ref |-> NoCommit, dirty |-> isDirty, result |-> "error",
          reset |-> FALSE, svc |-> <<>>]
    ELSE IF ~o.pull
    THEN [head |-> h, ref |-> NoCommit, dirty |-> FALSE, result |-> "error",
          reset |-> FALSE, svc |-> <<>>]
    ELSE IF o.req /\ ~o.pip
    THEN [head |-> tip, ref |-> tip, dirty |-> FALSE, result |-> "error",
          reset |-> TRUE, svc |-> <<>>]
    ELSE IF ~o.reload
    THEN [head |-> tip, ref |-> tip, dirty |-> FALSE, result |-> "error",
          reset |-> TRUE, svc |-> <<"daemon-reload">>]
    ELSE [head |-> tip, ref |-> tip, dirty |-> FALSE,
          result |-> IF o.restart THEN "ok" ELSE "error",
          reset |-> TRUE, svc |-> <<"daemon-reload", "restart gfp-pckmgr">>]

\* handle_update_button of check_updates.py.
updater_handle_update_button(data, src) ==
    /\ src \in buttons
    /\ buttons' = buttons \ {src}
    /\ IF data = "update_cancel"
       THEN /\ src \in CancelSources
            /\ lastRun' = Run("updater_handle_update_button", data, "cancelled",
                              FALSE, <<>>, FALSE)
            /\ UNCHANGED <<updateFile, last_commit>>
            /\ UNCHANGED repoVars
       ELSE \E r \in {Pull(remoteTip, head, d, o) :
                        d \in BOOLEAN, o \in UpdaterOutcomes} :
                  /\ head' = r.head
                  /\ originRef' = IF r.ref = NoCommit THEN originRef ELSE r.ref
                  /\ lastRun' = Run("updater_handle_update_button", data, r.result,
                                    r.reset, r.svc, FALSE)
                  /\ UNCHANGED <<remoteTip, updateFile, last_commit>>
    /\ UNCHANGED botVars
    /\ DetailUnchanged

(***************************************************************************)
(* update_confirm in the bot, call by call: what it does to the managed    *)
(* files, to the backup directory and to the services.                     *)
(***************************************************************************)
\* for file in ['check_updates.py', 'gfp_pckmgr.py'], in that order.
FileOrder == <<"check_updates.py", "gfp_pckmgr.py">>

ManagedFiles == {FileOrder[i] : i \in DOMAIN FileOrder}

\* What the operator can have done to a tracked file since the last checkout.
FileStates == {"committed", "edited", "absent"}

\* The clock is read in whole seconds and is followed up to MaxClock.
MaxClock == 1

\* The stash is followed up to MaxStash entries.
MaxStash == 1

\* The commits whose own change set contains requirements.txt: the first one
\* pushed after the installation, and no later one.
ReqCommits == {1}

\* repo.is_dirty(): a tracked file differs from HEAD.
is_dirty(fs) == \E f \in ManagedFiles : fs[f] # "committed"

\* The bytes of a managed file that exists: the text of commit h, or the
\* operator's edit of it.
Content(fs, f, h) == [base |-> h, edited |-> (fs[f] = "edited")]

\* One external call of a handler and how it ended.
Step(cmd, arg, rc) == [cmd |-> cmd, arg |-> arg, rc |-> rc]

\* shutil.copy2(src, dst): dst is created, or replaced when it exists.
copy2(bk, f, t, c) ==
    {b \in bk : ~(b.file = f /\ b.stamp = t)}
        \cup {[file |-> f, stamp |-> t, content |-> c]}

\* Where the backup block raises: nowhere, in os.makedirs, or in the copy of
\* one file.
BackupFailures == {"none", "makedirs"} \cup ManagedFiles

\* The for loop of the backup block from its i-th file on, at clock reading t.
RECURSIVE Snapshot(_, _, _, _, _, _)
Snapshot(i, fs, h, t, bk, fail) ==
    IF i > Len(FileOrder)
    THEN [backups |-> bk, raised |-> FALSE, steps |-> <<>>]
    ELSE LET file == FileOrder[i]
         IN  IF fs[file] = "absent"
             THEN Snapshot(i + 1, fs, h, t, bk, fail)
             ELSE IF fail = file
             THEN [backups |-> bk, raised |-> TRUE,
                   steps |-> <<Step("copy2", file, "fail")>>]
             ELSE LET rest == Snapshot(i + 1, fs, h, t,
                                       copy2(bk, file, t, Content(fs, file, h)), fail)
                  IN  [backups |-> rest.backups, raised |-> rest.raised,
                       steps |-> <<Step("copy2", file, "ok")>> \o rest.steps]

\* The backup block: os.makedirs(exist_ok=True), then the loop.
Backup(fs, h, t, bk, fail) ==
    IF fail = "makedirs"
    THEN [backups |-> bk, raised |-> TRUE,
          steps |-> <<Step("makedirs", "backup", "fail")>>]
    ELSE LET snap == Snapshot(1, fs, h, t, bk, fail)
         IN  [backups |-> snap.backups, raised |-> snap.raised,
              steps |-> <<Step("makedirs", "backup", "ok")>> \o snap.steps]

\* subprocess.run(..., check=True) of pip without the check; the handler
\* does check, this is the variant it is told from.
PipUnchecked(changed, pip) ==
    IF changed
    THEN [raised |-> FALSE,
          steps |-> <<Step("pip3", "install -r requirements.txt",
                           IF pip THEN "ok" ELSE "fail")>>]
    ELSE [raised |-> FALSE, steps |-> <<>>]

\* if 'requirements.txt' in [...]: subprocess.run(['pip3', ...], check=True)
Pip(changed, pip) ==
    IF changed
    THEN [raised |-> ~pip,
          steps |-> <<Step("pip3", "install -r requirements.txt",
                           IF pip THEN "ok" ELSE "fail")>>]
    ELSE [raised |-> FALSE, steps |-> <<>>]

\* The systemctl calls of one try block with their return codes: RunPair says
\* which of the two commands were run.
PairSteps(cmds, r1, r2) ==
    LET run == RunPair(cmds, r1, r2)
        rcs == <<r1, r2>>
    IN  [raised |-> run.raised,
         steps |-> [i \in DOMAIN run.svc |-> Step("systemctl", run.svc[i], rcs[i])]]

\* The stop block followed, unless it raised, by the start block.
RestartSteps(o) ==
    LET stop == PairSteps(StopCmds, o.s1, o.s2)
        start == PairSteps(StartCmds, o.t1, o.t2)
    IN  IF stop.raised
        THEN stop
        ELSE [raised |-> start.raised, steps |-> stop.steps \o start.steps]

\* What the environment does to one run of update_confirm: where the backup
\* block raises, whether the reset and pip succeed, how the stops and the
\* starts end.
ApplyOutcome(b, r, p, s, t) ==
    [backup |-> b, reset |-> r, pip |-> p, s1 |-> s[1], s2 |-> s[2],
     t1 |-> t[1], t2 |-> t[2]]

\* One representative per run that ends in the backup block, at the reset or
\* at pip, then every run that goes further.
ApplyOutcomes ==
    {ApplyOutcome(b, TRUE, TRUE, <<"ok", "ok">>, <<"ok", "ok">>) :
        b \in BackupFailures \ {"none"}}
    \cup {ApplyOutcome("none", FALSE, TRUE, <<"ok", "ok">>, <<"ok", "ok">>),
          ApplyOutcome("none", TRUE, FALSE, <<"ok", "ok">>, <<"ok", "ok">>)}
    \cup {ApplyOutcome("none", TRUE, TRUE, s, t) :
            s \in PairOutcomes, t \in PairOutcomes}

\* query.edit_message_text with the success text / with the text of the error.
\* A lookup that yields a default when the key is absent.
HasPendingByDefault(tx) == TRUE

\* context.bot_data['pending_update'] yields the stored update; it raises
\* KeyError when bot_data has no such key.
HasPending(tx) == tx # NoTx

SuccessMsg == <<Step("edit_message_text", "success", "ok")>>
ErrorMsg == <<Step("edit_message_text", "error", "ok")>>

\* The update_confirm branch, call by call, for the stored update tx, HEAD h,
\* origin/<branch> ref, the managed files fs, the clock reading t and the
\* backup directory bk.
Apply(tx, h, ref, fs, t, bk, o) ==
    IF ~HasPending(tx)
    THEN [head |-> h, files |-> fs, backups |-> bk, result |-> "no_pending",
          reset |-> FALSE, steps |-> ErrorMsg]
    ELSE
    LET backup == Backup(fs, h, t, bk, o.backup)
        target == ResetTarget(tx, ref)
        resetOk == o.reset /\ target # NoCommit
        resetStep == <<Step("git reset --hard", "origin/branch",
                            IF resetOk THEN "ok" ELSE "fail")>>
        clean == [f \in ManagedFiles |-> "committed"]
        pip == Pip(target \in ReqCommits, o.pip)
        restart == RestartSteps(o)
    IN  IF backup.raised
        THEN [head |-> h, files |-> fs, backups |-> backup.backups,
              result |-> "error", reset |-> FALSE,
              steps |-> backup.steps \o ErrorMsg]
        ELSE IF ~resetOk
        THEN [head |-> h, files |-> fs, backups |-> backup.backups,
              result |-> "error", reset |-> FALSE,
              steps |-> backup.steps \o resetStep \o ErrorMsg]
        ELSE IF pip.raised
        THEN [head |-> target, files |-> clean, backups |-> backup.backups,
              result |-> "error", reset |-> TRUE,
              steps |-> backup.steps \o resetStep \o pip.steps \o ErrorMsg]
        ELSE [head |-> target, files |-> clean, backups |-> backup.backups,
              result |-> IF restart.raised THEN "error" ELSE "ok",
              reset |-> TRUE,
              steps |-> backup.steps \o resetStep \o pip.steps \o SuccessMsg
                          \o restart.steps
                          \o (IF restart.raised THEN ErrorMsg ELSE <<>>)]

\* The systemctl commands among the steps of a run.
Systemctl(st) == SelectSeq(st, LAMBDA x : x.cmd = "systemctl")

\* A press of "Update Now" on the message sent by src, followed down to the
\* files; its calls are recorded in steps when logged.
update_confirm(src, logged) ==
    /\ src \in buttons
    /\ buttons' = buttons \ {src}
    /\ \E r \in {Apply(pending_update, head, originRef, files, clock, backups, o) :
                   o \in ApplyOutcomes} :
          /\ head' = r.head
          /\ files' = r.files
          /\ backups' = r.backups
          /\ steps' = IF logged THEN r.steps ELSE <<>>
          /\ applied' = (applied \/ r.reset)
          /\ lastRun' = Run("handle_update_button", "update_confirm", r.result,
                            r.reset, Systemctl(r.steps), FALSE)
    /\ UNCHANGED <<remoteTip, originRef, updateFile, pending_update, cpuPc,
                   cancelled, last_commit, stash, clock>>
    /\ UNCHANGED branchVars
    /\ UNCHANGED processVars

\* The operator edits or deletes a managed file of the working copy.
OperatorEdit ==
    /\ \E f \in ManagedFiles, st \in FileStates \ {"committed"} :
          files' = [files EXCEPT ![f] = st]
    /\ steps' = <<>>
    /\ lastRun' = NoRun
    /\ UNCHANGED <<updateFile, buttons, last_commit, stash, backups, clock>>
    /\ UNCHANGED repoVars
    /\ UNCHANGED botVars
    /\ UNCHANGED branchVars
    /\ UNCHANGED processVars

\* A second passes.
Tick ==
    /\ clock < MaxClock
    /\ clock' = clock + 1
    /\ steps' = <<>>
    /\ lastRun' = NoRun
    /\ UNCHANGED <<updateFile, buttons, last_commit, files, stash, backups>>
    /\ UNCHANGED repoVars
    /\ UNCHANGED botVars
    /\ UNCHANGED branchVars
    /\ UNCHANGED processVars

\* The files and the stash as the handler would leave them, were what it
\* stashed popped again at its end.
SetAsideReapplied(fs, n, stashed) == [files |-> fs, stash |-> n]

\* The files and the stash as the handler leaves them: repo.git.stash() puts
\* the modifications of the tracked files on the stash and leaves the files
\* as committed; no git stash pop or apply follows in the handler.
SetAside(fs, n, stashed) ==
    IF stashed
    THEN [files |-> [f \in ManagedFiles |-> "committed"], stash |-> n + 1]
    ELSE [files |-> fs, stash |-> n]

\* A press of "Update Now" answered by handle_update_button of
\* check_updates.py, followed down to the files.
updater_update_confirm(src) ==
    /\ src \in buttons
    /\ stash < MaxStash
    /\ buttons' = buttons \ {src}
    /\ \E o \in UpdaterOutcomes :
          LET dirty == is_dirty(files)
              r == Pull(remoteTip, head, dirty, o)
              stashed == dirty /\ o.stash
          IN  /\ head' = r.head
              /\ originRef' = IF r.ref = NoCommit THEN originRef ELSE r.ref
              /\ stash' = SetAside(files, stash, stashed).stash
              /\ files' = SetAside(files, stash, stashed).files
              /\ lastRun' = Run("updater_handle_update_button", "update_confirm",
                                r.result, r.reset, r.svc, FALSE)
    /\ steps' = <<>>
    /\ UNCHANGED <<remoteTip, updateFile, last_commit, backups, clock>>
    /\ UNCHANGED botVars
    /\ UNCHANGED branchVars
    /\ UNCHANGED processVars

(***************************************************************************)
(* The branch block of check_updates.  A reference name is the sequence   *)
(* of the parts that '/' separates, without the leading origin.            *)
(***************************************************************************)
\* The elements of a sequence.
Range(seq) == {seq[i] : i \in DOMAIN seq}

\* The remote-tracking references a repository can have, in the order
\* repo.references lists them (sorted by path): origin/HEAD, origin/dev,
\* origin/feature/x, origin/main, origin/master.
RefOrder == <<<<"HEAD">>, <<"dev">>, <<"feature", "x">>, <<"main">>, <<"master">>>>

\* The branches that can be checked out.
LocalBranches == Range(RefOrder) \ {<<"HEAD">>}

\* What the block came to: a branch name, or the exception it raised.
Resolved(name, error) == [name |-> name, error |-> error]

\* The block has not run.
Unresolved == Resolved(<<>>, "not run")

\* ref.name.split('/')[-1]
LastPart(name) == <<name[Len(name)]>>

\* available_branches: the last part of every origin/ reference, in order.
Available(refs) ==
    LET listed == SelectSeq(RefOrder, LAMBDA n : n \in refs)
    IN  [i \in DOMAIN listed |-> LastPart(listed[i])]

\* branch = repo.active_branch.name, 'main' when that raises; if origin/branch
\* is no reference, the first of available_branches; then
\* repo.remotes.origin.refs[branch], which raises IndexError for a name that
\* is no reference.
ResolveBranch(active, refs) ==
    LET tracked == IF active = <<>> THEN <<"main">> ELSE active
        available == Available(refs)
    IN  IF tracked \in refs
        THEN Resolved(tracked, "")
        ELSE IF available = <<>>
        THEN Resolved(<<>>, "No remote branches found")
        ELSE IF available[1] \in refs
        THEN Resolved(available[1], "")
        ELSE Resolved(available[1], "IndexError")

\* /update up to remote_commit = repo.remotes.origin.refs[branch].commit.
resolve_branch ==
    /\ branch = Unresolved
    /\ branch' = ResolveBranch(active_branch, references)
    /\ steps' = <<>>
    /\ lastRun' = NoRun
    /\ UNCHANGED <<active_branch, references, remote_head>>
    /\ UNCHANGED <<updateFile, buttons, last_commit>>
    /\ UNCHANGED repoVars
    /\ UNCHANGED botVars
    /\ UNCHANGED copyVars
    /\ UNCHANGED processVars

\* The number of user ids listed in ALLOWED_USERS.
MaxAllowed == 2

ALLOWED_USERS == 1 .. MaxAllowed

(***************************************************************************)
(* The process of check_updates.py, position by position: the setup, the   *)
(* passes of the while loop and the sleep between them.                    *)
(***************************************************************************)
\* How the part of check_and_notify before the loop ends: it reaches the loop
\* or returns because BOT_TOKEN is missing, ALLOWED_USERS is empty, Bot(...)
\* raises or setup_git_repo raises.
SetupOutcomes == {"ok", "no token", "no users", "bot", "repo"}

\* Where the loop stands after a pass that ended with result, were the
\* errors of a pass not caught: they would end the process.
AfterPassUncaught(result) ==
    IF result \in {"error", "exception"} THEN "stopped"
    ELSE IF result = "first" THEN "fetch"
    ELSE "sleep"

\* Where the loop stands after a pass that ended with result: the passes that
\* end in continue (a fetch that raised GitCommandError, the first run) are
\* back at the fetch; every other pass, those ended by except Exception
\* included, is at asyncio.sleep(CHECK_INTERVAL).
AfterPass(result) ==
    IF result \in {"error", "first"} THEN "fetch" ELSE "sleep"

\* The process is started: python check_updates.py.
updater_main ==
    /\ pollPc = "stopped"
    /\ pollPc' = "setup"
    /\ lastRun' = NoRun
    /\ steps' = <<>>
    /\ UNCHANGED <<updateFile, buttons, last_commit>>
    /\ UNCHANGED repoVars
    /\ UNCHANGED botVars
    /\ UNCHANGED copyVars
    /\ UNCHANGED branchVars
    /\ UNCHANGED sessionVars
    /\ UNCHANGED serviceVars
    /\ UNCHANGED notified

\* check_and_notify up to the loop.  setup_git_repo ends with a fetch.
poll_setup ==
    /\ pollPc = "setup"
    /\ \E o \in SetupOutcomes :
          /\ lastRun' = Quiet("check_and_notify", o)
          /\ IF o = "ok"
             THEN /\ originRef' = remoteTip
                  /\ last_commit' = NoCommit
                  /\ pollPc' = "fetch"
             ELSE /\ pollPc' = "stopped"
                  /\ UNCHANGED <<originRef, last_commit>>
    /\ steps' = <<>>
    /\ UNCHANGED <<remoteTip, head, updateFile, buttons>>
    /\ UNCHANGED botVars
    /\ UNCHANGED copyVars
    /\ UNCHANGED branchVars
    /\ UNCHANGED sessionVars
    /\ UNCHANGED serviceVars
    /\ UNCHANGED notified

\* What a pass of the loop leaves alone, and where it leaves the loop.
PollFrame ==
    /\ pollPc' = AfterPass(lastRun'.result)
    /\ steps' = <<>>
    /\ UNCHANGED copyVars
    /\ UNCHANGED branchVars
    /\ UNCHANGED sessionVars
    /\ UNCHANGED serviceVars
    /\ UNCHANGED notified

\* One pass of the while loop, from the fetch to the continue or to the end
\* of the try statement.  An exception other than the GitCommandError of the
\* fetch (repo.remotes.origin or repo.head.commit raising, for instance)
\* leaves the pass where it was raised and is logged by except Exception.
poll_pass(Frame) ==
    /\ pollPc = "fetch"
    /\ \/ check_and_notify_as(Frame)
       \/ /\ lastRun' = Quiet("check_and_notify", "exception")
          /\ Frame
          /\ UNCHANGED <<updateFile, buttons, last_commit>>
          /\ UNCHANGED repoVars
          /\ UNCHANGED botVars

poll_cycle == poll_pass(PollFrame)

\* The calls of a round of notifications, were the loop over the users left
\* at the first send that raises.
SendsUntilFailure(failed) ==
    LET last == IF failed = {} THEN MaxAllowed
                ELSE CHOOSE u \in failed : \A v \in failed : u <= v
    IN  [u \in 1 .. last |->
            Step("send_message", u, IF u \in failed THEN "fail" ELSE "ok")]

\* The calls of a round of notifications: for user_id in ALLOWED_USERS, one
\* bot.send_message each, in a try statement of its own; failed are the
\* users whose send raises.
Sends(failed) ==
    [u \in 1 .. MaxAllowed |->
        Step("send_message", u, IF u \in failed THEN "fail" ELSE "ok")]

\* A pass of the loop with its notifications recorded: the sends in steps,
\* the commit they announce in notified.
NotifyFrame ==
    /\ pollPc' = AfterPass(lastRun'.result)
    /\ \E failed \in SUBSET ALLOWED_USERS :
          steps' = IF lastRun'.announced THEN Sends(failed) ELSE <<>>
    /\ notified' = IF lastRun'.announced
                   THEN notified \cup {last_commit'}
                   ELSE notified
    /\ UNCHANGED copyVars
    /\ UNCHANGED branchVars
    /\ UNCHANGED sessionVars
    /\ UNCHANGED serviceVars

notify_cycle == poll_pass(NotifyFrame)

\* await asyncio.sleep(CHECK_INTERVAL) returns.
poll_sleep ==
    /\ pollPc = "sleep"
    /\ pollPc' = "fetch"
    /\ lastRun' = NoRun
    /\ steps' = <<>>
    /\ UNCHANGED <<updateFile, buttons, last_commit>>
    /\ UNCHANGED repoVars
    /\ UNCHANGED botVars
    /\ UNCHANGED copyVars
    /\ UNCHANGED branchVars
    /\ UNCHANGED sessionVars
    /\ UNCHANGED serviceVars
    /\ UNCHANGED notified

\* The process is interrupted from outside (KeyboardInterrupt, a signal).
poll_interrupt ==
    /\ pollPc # "stopped"
    /\ pollPc' = "stopped"
    /\ lastRun' = Quiet("__main__", "KeyboardInterrupt")
    /\ steps' = <<>>
    /\ UNCHANGED <<updateFile, buttons, last_commit>>
    /\ UNCHANGED repoVars
    /\ UNCHANGED botVars
    /\ UNCHANGED copyVars
    /\ UNCHANGED branchVars
    /\ UNCHANGED sessionVars
    /\ UNCHANGED serviceVars
    /\ UNCHANGED notified

(***************************************************************************)
(* The chats: who sends an Update and which handler answers it.            *)
(***************************************************************************)
\* The Telegram users who can reach the bot; user 0 is not in ALLOWED_USERS.
Users == 0 .. MaxAllowed

\* One handled Update: who sent it, which handler answered, the text or the
\* callback data, the command handed to _execute_and_reply ("" if none), and
\* whether a subprocess was run for it.
Request(u, h, t, c, ran) ==
    [user |-> u, handler |-> h, text |-> t, command |-> c, ran |-> ran]

NoRequest == Request(-1, "", "", "", FALSE)

\* The plain texts a user sends.
Texts == {"ls", "LS", "exit", "Exit"}

\* The directories the buttons of /dir offer.
Dirs == {"/", "/opt"}

\* A comparison of the text as typed.
LowerIdentity(t) == t

\* str.lower()
Lower(t) ==
    CASE t = "LS" -> "ls"
      [] t = "Exit" -> "exit"
      [] OTHER -> t

\* What a handler leaves alone when it touches neither the repository, nor
\* bot_data, nor the services: it answers the Update r.
Handled(r) ==
    /\ request' = r
    /\ lastRun' = NoRun
    /\ steps' = <<>>
    /\ UNCHANGED <<updateFile, last_commit, pollPc, notified>>
    /\ UNCHANGED repoVars
    /\ UNCHANGED botVars
    /\ UNCHANGED copyVars
    /\ UNCHANGED branchVars
    /\ UNCHANGED serviceVars

\* The handler only replies: the text 'You are not authorized to use this
\* bot.', a help text, UNKNOWN_COMMAND_MESSAGE.
Reply(u, h, t) ==
    /\ Handled(Request(u, h, t, "", FALSE))
    /\ UNCHANGED <<buttons, command_mode_users, user_data>>

\* /start, /help and a command no handler is registered for.
start(u) == Reply(u, "start", "")

help_command(u) == Reply(u, "help_command", "")

unknown_command(u) == Reply(u, "unknown_command", "")

\* /load_journal: with two well-formed arguments journalctl is run.
load_journal(u) ==
    IF u \notin ALLOWED_USERS
    THEN Reply(u, "load_journal", "")
    ELSE \E ran \in BOOLEAN :
            /\ Handled(Request(u, "load_journal", "", "", ran))
            /\ UNCHANGED <<buttons, command_mode_users, user_data>>

\* _execute_and_reply(update, command), called by handler h.  The working
\* directory is looked up through update._user_data and entered with
\* os.chdir before subprocess.run; when either raises, the reply is the error
\* and no subprocess is run.
execute_and_reply(u, h, command) ==
    \E ran \in BOOLEAN :
        /\ Handled(Request(u, h, command, command, ran))
        /\ UNCHANGED <<buttons, command_mode_users, user_data>>

\* /exec <command>
execute_command(u, t) ==
    IF u \notin ALLOWED_USERS
    THEN Reply(u, "execute_command", t)
    ELSE execute_and_reply(u, "execute_command", t)

\* /cmd_mode
cmd_mode(u) ==
    IF u \notin ALLOWED_USERS
    THEN Reply(u, "cmd_mode", "")
    ELSE /\ command_mode_users' = command_mode_users \cup {u}
         /\ Handled(Request(u, "cmd_mode", "", "", FALSE))
         /\ UNCHANGED <<buttons, user_data>>

\* /exit
exit_command(u) ==
    IF u \notin ALLOWED_USERS
    THEN Reply(u, "exit_command", "")
    ELSE /\ command_mode_users' = command_mode_users \ {u}
         /\ Handled(Request(u, "exit_command", "", "", FALSE))
         /\ UNCHANGED <<buttons, user_data>>

\* A text message that is no command (filters.TEXT & ~filters.COMMAND).
handle_message(u, t) ==
    IF u \notin ALLOWED_USERS
    THEN Reply(u, "handle_message", t)
    ELSE IF u \in command_mode_users
    THEN LET command == t
         IN  IF Lower(command) = "exit"
             THEN /\ command_mode_users' = command_mode_users \ {u}
                  /\ Handled(Request(u, "handle_message", t, "", FALSE))
                  /\ UNCHANGED <<buttons, user_data>>
             ELSE execute_and_reply(u, "handle_message", command)
    ELSE Reply(u, "handle_message", t)

\* /dir: ls -la of the user's current directory, sent with one button per
\* subdirectory.
dir_command(u) ==
    IF u \notin ALLOWED_USERS
    THEN Reply(u, "dir_command", "")
    ELSE /\ buttons' = buttons \cup {"dir"}
         /\ Handled(Request(u, "dir_command", "", "", TRUE))
         /\ UNCHANGED <<command_mode_users, user_data>>

\* A press of a button of the /dir message by a user who sees it: stop_dir,
\* or dir_<path>, which stores the path and runs ls -la on it.
dir_button(u, data) ==
    /\ "dir" \in buttons
    /\ IF data = "stop_dir"
       THEN /\ buttons' = buttons \ {"dir"}
            /\ Handled(Request(u, "dir_button", data, "", FALSE))
            /\ UNCHANGED <<command_mode_users, user_data>>
       ELSE LET target_dir == data
            IN  /\ user_data' = [user_data EXCEPT ![u] = target_dir]
                /\ Handled(Request(u, "dir_button", data, "", TRUE))
                /\ UNCHANGED <<buttons, command_mode_users>>

\* What /update, /version and the update buttons leave alone besides the
\* repository and bot_data, when the Update they answer is r.
SessionFrame(r) ==
    /\ request' = r
    /\ steps' = <<>>
    /\ UNCHANGED <<command_mode_users, user_data, pollPc, notified>>
    /\ UNCHANGED copyVars
    /\ UNCHANGED branchVars
    /\ UNCHANGED serviceVars

\* /update sent by u.
check_updates_by(u) ==
    check_updates_as(SessionFrame(Request(u, "check_updates", "", "", FALSE)))

\* /version sent by u.
version_command_by(u) ==
    IF u \notin ALLOWED_USERS
    THEN Reply(u, "version_command", "")
    ELSE version_command_as(
            SessionFrame(Request(u, "version_command", "", "", FALSE)))

\* A press of an update button by a user who sees the message.
handle_update_button_by(u, data, src) ==
    handle_update_button_as(data, src,
        SessionFrame(Request(u, "handle_update_button", data, "", FALSE)))

(***************************************************************************)
(* The services handle_update_button stops and starts.                     *)
(***************************************************************************)
ManagedServices == {"gfp-pckmgr", "gfp-pckmgr-updater"}

\* The positions of handle_update_button in its stop / start block, in the
\* order of the calls: the command it is about to run and the service named.
RestartOrder == <<"stop1", "stop2", "start1", "start2">>

RestartCmd(pc) ==
    CASE pc = "stop1" -> [verb |-> "stop", service |-> "gfp-pckmgr"]
      [] pc = "stop2" -> [verb |-> "stop", service |-> "gfp-pckmgr-updater"]
      [] pc = "start1" -> [verb |-> "start", service |-> "gfp-pckmgr-updater"]
      [] pc = "start2" -> [verb |-> "start", service |-> "gfp-pckmgr"]

\* Where the handler goes after the command at pc ended with rc: return code
\* 0 goes to the next call; -15 leaves the try statement the call is in (the
\* rest of the stop calls, or of the start calls, is skipped); any other
\* return code is raised again and ends the handler in except Exception.
AfterCmd(pc, rc) ==
    IF rc = "fail" THEN "raised"
    ELSE IF RestartCmd(pc).verb = "stop"
    THEN IF rc = "ok" /\ pc = "stop1" THEN "stop2" ELSE "start1"
    ELSE IF rc = "ok" /\ pc = "start1" THEN "start2" ELSE "done"

\* An approved update has been reset to and the success message sent: the
\* handler of the bot stands before its first systemctl call.
restart_begin(src) ==
    /\ restartPc = "idle"
    /\ src \in buttons
    /\ pending_update # NoTx
    /\ ResetTarget(pending_update, originRef) # NoCommit
    /\ buttons' = buttons \ {src}
    /\ head' = ResetTarget(pending_update, originRef)
    /\ applied' = TRUE
    /\ restartPc' = "stop1"
    /\ lastRun' = Run("handle_update_button", "update_confirm", "ok", TRUE,
                      <<>>, FALSE)
    /\ steps' = <<>>
    /\ UNCHANGED <<remoteTip, originRef, updateFile, pending_update, cpuPc,
                   cancelled, last_commit, pollPc, notified, running>>
    /\ UNCHANGED copyVars
    /\ UNCHANGED branchVars
    /\ UNCHANGED sessionVars

\* The next subprocess.run(['systemctl', ...], check=True) of the block.  A
\* stop that returns 0 or is ended by SIGTERM has stopped the service, a
\* start likewise has started it.
restart_step ==
    /\ restartPc \in Range(RestartOrder)
    /\ \E rc \in CmdOutcomes :
          LET cmd == RestartCmd(restartPc)
          IN  /\ restartPc' = AfterCmd(restartPc, rc)
              /\ running' = IF rc = "fail" THEN running
                            ELSE IF cmd.verb = "stop"
                            THEN running \ {cmd.service}
                            ELSE running \cup {cmd.service}
    /\ lastRun' = NoRun
    /\ steps' = <<>>
    /\ UNCHANGED <<updateFile, buttons, last_commit, pollPc, notified>>
    /\ UNCHANGED repoVars
    /\ UNCHANGED botVars
    /\ UNCHANGED copyVars
    /\ UNCHANGED branchVars
    /\ UNCHANGED sessionVars

\* The handler runs in the process of the service gfp-pckmgr.  Once that
\* service is being stopped, the service manager ends its processes: the
\* handler goes no further.
process_stopped ==
    /\ restartPc \in Range(RestartOrder)
    /\ "gfp-pckmgr" \notin running
    /\ restartPc' = "killed"
    /\ lastRun' = NoRun
    /\ steps' = <<>>
    /\ UNCHANGED <<updateFile, buttons, last_commit, pollPc, notified,
                   running>>
    /\ UNCHANGED repoVars
    /\ UNCHANGED botVars
    /\ UNCHANGED copyVars
    /\ UNCHANGED branchVars
    /\ UNCHANGED sessionVars

(***************************************************************************)
(* Specifications.                                                         *)
(***************************************************************************)
InitUpdate ==
    /\ remoteTip = 0
    /\ originRef = 0
    /\ head = 0
    /\ updateFile = NoTx
    /\ pending_update = NoTx
    /\ buttons = {}
    /\ cpuPc = "idle"
    /\ last_commit = NoCommit
    /\ cancelled = FALSE
    /\ applied = FALSE
    /\ lastRun = NoRun
    /\ files = [f \in ManagedFiles |-> "committed"]
    /\ stash = 0
    /\ backups = {}
    /\ clock = 0
    /\ steps = <<>>
    /\ pollPc = "setup"
    /\ notified = {}
    /\ request = NoRequest
    /\ command_mode_users = {}
    /\ user_data = [u \in Users |-> "/"]
    /\ restartPc = "idle"
    /\ running = ManagedServices

\* The installation: main is checked out, is the branch the remote advertises
\* and is the only remote-tracking branch.
Init ==
    /\ InitUpdate
    /\ active_branch = <<ActiveBranch>>
    /\ references = {<<ActiveBranch>>}
    /\ remote_head = <<ActiveBranch>>
    /\ branch = Unresolved

\* Every checkout and every set of remote-tracking references that the
\* branch block of check_updates can meet after its fetch: the branch the
\* remote advertises, if any, has been fetched.
InitResolve ==
    /\ InitUpdate
    /\ active_branch \in {<<>>} \cup LocalBranches
    /\ references \in SUBSET Range(RefOrder)
    /\ remote_head \in {<<>>} \cup (references \ {<<"HEAD">>})
    /\ branch = Unresolved

ButtonData == {"update_confirm", "update_cancel"}

\* Everything but the answer to a button press.
Detection ==
    \/ RemotePush
    \/ Publish
    \/ main
    \/ check_updates
    \/ version_command
    \/ check_pending_updates_read
    \/ check_pending_updates_finish
    \/ check_and_notify_start
    \/ check_and_notify

Next ==
    \/ Detection
    \/ \E data \in ButtonData, src \in Sources : handle_update_button(data, src)

\* The program as main() wires it: the buttons are answered by
\* handle_update_button of gfp_pckmgr.py.
Spec == Init /\ [][Next]_vars

\* The buttons answered by handle_update_button of check_updates.py instead,
\* which that module defines and registers nowhere.
NextUpdater ==
    \/ Detection
    \/ \E data \in ButtonData, src \in Sources : updater_handle_update_button(data, src)

SpecUpdater == Init /\ [][NextUpdater]_vars

\* The confirmation-gated update of the bot on a working copy nobody edits,
\* with every external call of the handler recorded.
NextCalls ==
    \/ RemotePush
    \/ check_updates
    \/ \E src \in Sources : update_confirm(src, TRUE)

SpecCalls == Init /\ [][NextCalls]_vars

\* The same update with an operator who edits the managed files and a clock
\* that advances: what reaches the backup directory.
NextApply ==
    \/ RemotePush
    \/ check_updates
    \/ OperatorEdit
    \/ Tick
    \/ \E src \in Sources : update_confirm(src, FALSE)

SpecApply == Init /\ [][NextApply]_vars

\* The buttons answered by handle_update_button of check_updates.py on a
\* working copy the operator edits.
NextApplyUpdater ==
    \/ RemotePush
    \/ check_updates
    \/ OperatorEdit
    \/ \E src \in Sources : updater_update_confirm(src)

SpecApplyUpdater == Init /\ [][NextApplyUpdater]_vars

\* The process of check_updates.py followed through its loop, next to a bot
\* whose /update and buttons move the local HEAD.
NextPoll ==
    \/ RemotePush
    \/ check_updates
    \/ \E data \in ButtonData, src \in Sources : handle_update_button(data, src)
    \/ updater_main
    \/ poll_setup
    \/ poll_cycle
    \/ poll_sleep
    \/ poll_interrupt

SpecPoll == Init /\ [][NextPoll]_vars

\* The same process with every round of notifications recorded.
NextNotify ==
    \/ RemotePush
    \/ check_updates
    \/ \E data \in ButtonData, src \in Sources : handle_update_button(data, src)
    \/ updater_main
    \/ poll_setup
    \/ notify_cycle
    \/ poll_sleep
    \/ poll_interrupt

SpecNotify == Init /\ [][NextNotify]_vars

\* One run of the bot process, the handlers of the shell and of the
\* directories as main() registers them: every Update comes from a user,
\* listed in ALLOWED_USERS or not.
NextCommands ==
    \E u \in Users :
        \/ start(u)
        \/ help_command(u)
        \/ unknown_command(u)
        \/ load_journal(u)
        \/ \E t \in Texts : execute_command(u, t)
        \/ cmd_mode(u)
        \/ exit_command(u)
        \/ \E t \in Texts : handle_message(u, t)
        \/ dir_command(u)
        \/ \E data \in Dirs \cup {"stop_dir"} : dir_button(u, data)

SpecCommands == Init /\ [][NextCommands]_vars

\* The same run with the handlers of the update as well.
NextSession ==
    \/ NextCommands
    \/ \E u \in Users :
          \/ check_updates_by(u)
          \/ version_command_by(u)
          \/ \E data \in ButtonData, src \in Sources :
                handle_update_button_by(u, data, src)

SpecSession == Init /\ [][NextSession]_vars

\* The stop / start block of the bot's handler call by call, run by the
\* process of the service it stops first.
NextRestart ==
    \/ RemotePush
    \/ check_updates
    \/ \E src \in Sources : restart_begin(src)
    \/ restart_step
    \/ process_stopped

SpecRestart == Init /\ [][NextRestart]_vars

\* The buttons of /update and of /version pressed in a bot that is started
\* again now and then, each run of the handler recorded call by call.
NextPress ==
    \/ RemotePush
    \/ main
    \/ check_updates
    \/ version_command
    \/ \E src \in Sources : update_confirm(src, TRUE)

SpecPress == Init /\ [][NextPress]_vars

\* The branch block of /update, from every checkout and every set of
\* remote-tracking references.
NextResolve == resolve_branch

SpecResolve == InitResolve /\ [][NextResolve]_vars

(***************************************************************************)
(* Properties.                                                             *)
(***************************************************************************)
\* The step just taken (or, on a stuttering step, the last one) was the bot's
\* handler answering "Update Now".
Confirmed(run) ==
    run.handler = "handle_update_button" /\ run.data = "update_confirm"

\* A stored update whose two commits differ.
Genuine(tx) == tx # NoTx /\ tx.old_commit # tx.new_commit

\* C1: when the update_confirm handler finishes, either HEAD is the commit
\* origin/<branch> pointed at when the handler started, or the handler
\* reported a failure and HEAD is what it was before.
C1_ReconcileAllOrNothing ==
    [][Confirmed(lastRun') =>
          \/ head' = originRef
          \/ (lastRun'.result # "ok" /\ head' = head)]_vars

\* C1 witness: a confirm has reset HEAD to the remote-tracking tip, away from
\* the commit HEAD had when the update was detected.
C1_Witness ==
    /\ Confirmed(lastRun)
    /\ lastRun.reset
    /\ lastRun.result = "ok"
    /\ Genuine(pending_update)
    /\ head = originRef
    /\ head # pending_update.old_commit

\* C2: after a successful update_confirm of a stored update whose commits
\* differ, HEAD is the new_commit recorded in that update, whatever was
\* fetched between its detection and its approval.
C2_HeadIsNewCommit ==
    [][(Confirmed(lastRun') /\ lastRun'.result = "ok" /\ Genuine(pending_update))
          => head' = pending_update.new_commit]_vars

\* C3: a pass of the polling loop that fetches a remote tip different from
\* the local HEAD, the local HEAD being the one the previous pass saw,
\* announces the update.
C3_PollDetectsRemoteAdvance ==
    [][(/\ lastRun'.handler = "check_and_notify"
        /\ lastRun'.result # "error"
        /\ last_commit = head
        /\ head' = head
        /\ originRef' # head')
          => lastRun'.announced]_vars

\* C4: /update stores a pending update only when the local and the remote
\* commit differ: no stored update has old_commit equal to new_commit.
C4_NoTransactionWhenEqual ==
    pending_update # NoTx => pending_update.old_commit # pending_update.new_commit

\* C5: a stored update whose commits differ is never replaced by another
\* one: while the bot process lives, a later detection leaves it as it is.
C5_PendingNotOverwritten ==
    [][(Genuine(pending_update) /\ pending_update' # NoTx)
          => pending_update' = pending_update]_vars

\* C6: once update_cancel was pressed for the stored update, no later
\* update_confirm resets the working copy or issues a systemctl command.
C6_CancelledNeverApplied ==
    [][(cancelled /\ Confirmed(lastRun'))
          => (~lastRun'.reset /\ ~lastRun'.systemctl)]_vars

\* C7: check_pending_updates reads and removes the record in one step: in no
\* state has the job read the record while the file is still there for the
\* other process to see.
C7_ConsumeAtomic ==
    cpuPc = "send" => updateFile = NoTx

\* C8: an update_confirm for a stored update that was already applied, HEAD
\* being its new_commit, performs no reset and issues no systemctl command.
C8_SecondApplyShortCircuits ==
    [][(/\ applied
        /\ Genuine(pending_update)
        /\ head = pending_update.new_commit
        /\ Confirmed(lastRun'))
          => (~lastRun'.reset /\ ~lastRun'.systemctl)]_vars

\* C9: an update_confirm pressed on a notification sent by check_and_notify
\* does not fail for lack of a pending update.
C9_PollNotificationHasPending ==
    [][(/\ "poll" \in buttons
        /\ "poll" \notin buttons'
        /\ Confirmed(lastRun'))
          => lastRun'.result # "no_pending"]_vars

\* C10: HEAD changes, and a reset or a systemctl command is run, only in a
\* step that answers update_confirm; /update, /version, the polling loop and
\* the pending-file job never do either.
C10_DetectionOnlyPublishes ==
    [][(head' # head \/ lastRun'.reset \/ lastRun'.systemctl)
          => Confirmed(lastRun')]_vars

\* C10 witness: /update, /version and the polling loop have all run on a
\* remote that is ahead, an update is stored and offered, and HEAD is still
\* the commit the update was detected at.
C10_Witness ==
    /\ Genuine(pending_update)
    /\ head = pending_update.old_commit
    /\ {"bot", "version"} \subseteq buttons
    /\ last_commit = head
    /\ originRef # head
    /\ updateFile = NoTx
    /\ cpuPc = "idle"

\* The step just taken was handle_update_button of check_updates.py answering
\* "Update Now".
UpdaterConfirmed(run) ==
    run.handler = "updater_handle_update_button" /\ run.data = "update_confirm"

\* A call with this command is among the steps, with this return code.
Issued(st, cmd) == \E i \in DOMAIN st : st[i].cmd = cmd

Ended(st, cmd, rc) == \E i \in DOMAIN st : st[i].cmd = cmd /\ st[i].rc = rc

\* C11: an update_confirm that resets a working copy holding uncommitted
\* modifications has put them on the stash before the reset.
C11_DirtyStashedBeforeReset ==
    [][(Confirmed(lastRun') /\ lastRun'.reset /\ is_dirty(files))
          => stash' = stash + 1]_vars

\* C12: when update_confirm resets a dirty working copy, the backup directory
\* then holds, for every managed file that existed, a copy of what the file
\* was before the reset; and no step changes or removes a backup that exists.
C12_BackupBeforeReset ==
    [][/\ (Confirmed(lastRun') /\ lastRun'.reset /\ is_dirty(files))
            => \A f \in ManagedFiles :
                  files[f] # "absent"
                      => \E b \in backups' :
                            b.file = f /\ b.content = Content(files, f, head)
       /\ \A b \in backups : b \in backups']_vars

\* C13: a run of update_confirm whose backup block fails (os.makedirs or a
\* copy raises) still goes on to git reset --hard.
C13_BackupFailureNotFatal ==
    [][(/\ Confirmed(lastRun')
        /\ (Ended(steps', "makedirs", "fail") \/ Ended(steps', "copy2", "fail")))
          => Issued(steps', "git reset --hard")]_vars

\* C14: a run of update_confirm that fails before or at the pull leaves HEAD
\* where it was, issues no systemctl command, and leaves the working copy
\* with the modifications it had: what it stashed is back in the files.
C14_FailedPullRestoresStash ==
    [][(UpdaterConfirmed(lastRun') /\ lastRun'.result = "error" /\ ~lastRun'.reset)
          => /\ head' = head
             /\ ~lastRun'.systemctl
             /\ files' = files
             /\ stash' = stash]_vars

\* The systemctl commands of the run that just ended, in the order issued.
Commands(st) == [i \in DOMAIN Systemctl(st) |-> Systemctl(st)[i].arg]

\* Every call cmd among the steps comes before every call other.
Before(st, cmd, other) ==
    \A i, j \in DOMAIN st : (st[i].cmd = cmd /\ st[j].cmd = other) => i < j

\* C15: whenever the handler has issued a start, it had first issued the stop
\* of gfp-pckmgr and then the stop of gfp-pckmgr-updater; and a restart it
\* reports as done has issued the two stops and then the two starts, in order.
C15_StopAllThenStartAll ==
    LET names == Commands(steps)
    IN  /\ (\E i \in DOMAIN names : names[i] \in Range(StartCmds))
              => /\ Len(names) >= Len(StopCmds)
                 /\ SubSeq(names, 1, Len(StopCmds)) = StopCmds
        /\ (Confirmed(lastRun) /\ lastRun.result = "ok")
              => names = StopCmds \o StartCmds

\* C16: after a stop that ended with return code -15 every service has been
\* issued its stop and the starts have begun; after a stop that failed in
\* another way the handler reports an error and no start was issued.
C16_SigtermStopIsSuccess ==
    LET svc == Systemctl(steps)
        names == Commands(steps)
        StopEnded(rc) ==
            \E i \in DOMAIN svc : svc[i].arg \in Range(StopCmds) /\ svc[i].rc = rc
    IN  /\ StopEnded("sigterm")
              => /\ Range(StopCmds) \subseteq Range(names)
                 /\ StartCmds[1] \in Range(names)
        /\ StopEnded("fail")
              => /\ lastRun.result = "error"
                 /\ Range(names) \cap Range(StartCmds) = {}

\* C17: an update_confirm that resets a working copy without uncommitted
\* modifications, and therefore stashes nothing, issues no systemctl command.
C17_CleanUpdateNoRestart ==
    [][(/\ Confirmed(lastRun')
        /\ lastRun'.reset
        /\ ~is_dirty(files)
        /\ stash' = stash)
          => Systemctl(steps') = <<>>]_vars

\* requirements.txt is in the change set of a commit after old, up to new.
ReqChangedBetween(old, new) == \E c \in ReqCommits : old < c /\ c <= new

\* C18: an update_confirm that resets to the new_commit of the stored update
\* runs pip3 install exactly when requirements.txt changed in a commit
\* between old_commit and new_commit, after the reset and before any
\* systemctl command.
C18_PipIffManifestChanged ==
    [][(/\ Confirmed(lastRun')
        /\ lastRun'.reset
        /\ Genuine(pending_update)
        /\ head' = pending_update.new_commit)
          => /\ Issued(steps', "pip3")
                   <=> ReqChangedBetween(pending_update.old_commit,
                                         pending_update.new_commit)
             /\ Before(steps', "git reset --hard", "pip3")
             /\ Before(steps', "pip3", "systemctl")]_vars

\* C19: a run of update_confirm in which pip3 install fails issues no
\* systemctl command, ends as an error, never sends the success text, and
\* its last message is the error.
C19_PipFailureAbortsRestart ==
    [][(Confirmed(lastRun') /\ Ended(steps', "pip3", "fail"))
          => /\ Systemctl(steps') = <<>>
             /\ lastRun'.result = "error"
             /\ SuccessMsg[1] \notin Range(steps')
             /\ steps'[Len(steps')] = ErrorMsg[1]]_vars

\* C19 witness: an update whose commits differ was confirmed, the reset
\* brought a commit that changes requirements.txt, and pip3 install failed.
C19_Witness ==
    /\ Confirmed(lastRun)
    /\ lastRun.reset
    /\ Genuine(pending_update)
    /\ head \in ReqCommits
    /\ Ended(steps, "pip3", "fail")

\* C20: when the remote advertises a default branch, the branch block comes
\* to that branch, whatever is checked out and whatever other remote-tracking
\* references exist.
C20_ResolvesRemoteDefault ==
    (branch # Unresolved /\ remote_head # <<>>)
        => (branch.error = "" /\ branch.name = remote_head)

\* The branch the block starts from: the checked-out one, 'main' when HEAD is
\* detached.
Tracked == IF active_branch = <<>> THEN <<"main">> ELSE active_branch

\* The origin/ references in the order repo.references lists them.
Listed == SelectSeq(RefOrder, LAMBDA n : n \in references)

\* C21: when origin/<tracked branch> is no reference and some origin/
\* reference exists, the branch block comes to the first origin/ reference
\* listed, and the name it comes to is the name of a reference.
C21_FallbackNamesReference ==
    (branch # Unresolved /\ Tracked \notin references /\ references # {})
        => /\ branch.error = ""
           /\ branch.name = Listed[1]
           /\ branch.name \in references

\* C22: the branch block fails only when there is no origin/ reference at
\* all, and then with 'No remote branches found'.
C22_FailsOnlyWithoutReferences ==
    branch # Unresolved
        => /\ (references # {}) => branch.error = ""
           /\ (branch.error = "No remote branches found") => references = {}

\* The step is a pass of the polling loop.
Cycle == pollPc = "fetch" /\ lastRun'.handler = "check_and_notify"

\* C23: every pass of the polling loop, whatever its result, ends at the
\* sleep: the next fetch is attempted only after asyncio.sleep.
C23_SleepBetweenFetches ==
    [][Cycle => pollPc' = "sleep"]_vars

\* C24: a pass whose fetch fails leaves the remote-tracking reference, the
\* last-seen commit, HEAD and the files as they were, and the loop goes on.
C24_FailedFetchChangesNothing ==
    [][(Cycle /\ lastRun'.result = "error")
          => /\ originRef' = originRef
             /\ last_commit' = last_commit
             /\ head' = head
             /\ files' = files
             /\ pollPc' \in {"fetch", "sleep"}]_vars

\* C25: a pass of the loop never stops the process, whatever it raised; the
\* process stops only from the setup before the loop, on one of its four
\* failures, or on an interrupt from outside.
C25_LoopSurvivesErrors ==
    [][/\ Cycle => pollPc' \in {"fetch", "sleep"}
       /\ (pollPc # "stopped" /\ pollPc' = "stopped")
             => \/ lastRun'.result = "KeyboardInterrupt"
                \/ /\ pollPc = "setup"
                   /\ lastRun'.result \in SetupOutcomes \ {"ok"}]_vars

\* A pass well inside the life of the loop has just ended in an error and
\* the loop stands before its next pass.
C25_Witness ==
    /\ lastRun.handler = "check_and_notify"
    /\ lastRun.result \in {"error", "exception"}
    /\ last_commit # NoCommit
    /\ pollPc \in {"fetch", "sleep"}

C27_OnlyAllowedUsers ==
    [][(request'.user \notin ALLOWED_USERS /\ request'.handler # "")
          => /\ request'.command = ""
             /\ ~request'.ran
             /\ command_mode_users' = command_mode_users
             /\ user_data' = user_data
             /\ pending_update' = pending_update
             /\ head' = head
             /\ ~lastRun'.reset
             /\ ~lastRun'.systemctl]_vars

\* The texts that spell exit in some letter case.
ExitTexts == {"exit", "Exit"}

\* The Update just handled ends the command mode of its sender.
Leaves(r) ==
    \/ r.handler = "exit_command"
    \/ r.handler = "handle_message" /\ r.text \in ExitTexts

RestartOver == restartPc \in {"done", "raised", "killed"}

\* C29: once the handler of an approved update whose reset succeeded is
\* through with its stop / start block, however it left it, every managed
\* service is running: no service it stopped stays stopped.
C29_RestartCompletes ==
    RestartOver => running = ManagedServices

\* C30: a run of update_confirm that finds no pending_update in bot_data
\* writes no backup, leaves HEAD and the files as they were, runs neither
\* pip3 nor systemctl, and only edits the message to the error text.
C30_NoPendingNoEffect ==
    [][(Confirmed(lastRun') /\ pending_update = NoTx)
          => /\ backups' = backups
             /\ head' = head
             /\ files' = files
             /\ ~lastRun'.reset
             /\ ~lastRun'.systemctl
             /\ steps' = ErrorMsg]_vars

\* "Update Now" has been pressed with nothing pending while the remote was
\* ahead of the working copy: the press has ended in the error text.
C30_Witness ==
    /\ Confirmed(lastRun)
    /\ lastRun.result = "no_pending"
    /\ pending_update = NoTx
    /\ originRef # head
    /\ originRef # NoCommit
    /\ steps = ErrorMsg

\* The run just ended tried to send to user u.
SentTo(st, u) ==
    \E i \in DOMAIN st : st[i].cmd = "send_message" /\ st[i].arg = u

\* C31: a pass of the polling loop that has no last-seen commit yet sends
\* nothing and, when its fetch succeeds, records HEAD; a pass that sends
\* announces a commit no earlier pass announced, tries every allowed user
\* whichever sends fail, and records the commit as last seen; no other pass
\* sends anything.
C31_OneRoundPerCommit ==
    [][Cycle =>
          /\ (last_commit = NoCommit)
                => /\ ~lastRun'.announced
                   /\ (lastRun'.result = "first") => last_commit' = head
          /\ lastRun'.announced
                => /\ head \notin notified
                   /\ notified' = notified \cup {head}
                   /\ last_commit' = head
                   /\ \A u \in ALLOWED_USERS : SentTo(steps', u)
          /\ (~lastRun'.announced)
                => (steps' = <<>> /\ notified' = notified)]_vars

\* A second commit has been announced; the send to the first user failed and
\* the send to another one went through.
C31_Witness ==
    /\ lastRun.handler = "check_and_notify"
    /\ lastRun.announced
    /\ Cardinality(notified) = 2
    /\ last_commit = head
    /\ steps # <<>>
    /\ steps[1].rc = "fail"
    /\ \E i \in DOMAIN steps : steps[i].rc = "ok"

====
